---- MODULE Spec2Model ----
(***************************************************************************)
(* Model of the JSONP request bridge (JsonpClientBackend) of the vendored  *)
(* @angular/common/http package.  One exchange is one subscription to the  *)
(* observable returned by handle(); the browser (script loader, the loaded *)
(* script, the consumer) is the environment and may act in any order.      *)
(* The XSRF interceptor and cookie extractor of the same file and the NgIf *)
(* directive of @angular/common have their own specifications (XsrfSpec,   *)
(* CookieSpec, NgIfSpec) over their own variables.                         *)
(***************************************************************************)
EXTENDS Integers, Sequences, FiniteSets, TLC

\* ---------------------------------------------------------------- bounds
MaxExchanges == 2
MaxUrlLen == 5
MaxCookies == 2
MaxParses == 3
MaxViews == 4

\* ------------------------------------------------------------- constants
JSONP_ERR_NO_CALLBACK == "JSONP injected script did not invoke callback."
JSONP_ERR_WRONG_METHOD == "JSONP requests must use JSONP request method."
JSONP_ERR_WRONG_RESPONSE_TYPE == "JSONP requests must use Json response type."
JSONP_ERR_HEADERS_NOT_SUPPORTED == "JSONP requests do not support headers."

\* nextCallback(): the name built from the current counter value.
nextCallback(id) == "ng_jsonp_callback_" \o ToString(id)

\* ------------------------------------------------------- input alphabets
\* A URL is a sequence of tokens; "=" and "JSONP_CALLBACK" are the two
\* halves of the placeholder, "&" the parameter delimiter.
Urls == { <<"u", "?", "cb", "=", "JSONP_CALLBACK", "&", "y">> }
Methods == {"JSONP", "GET"}
ResponseTypes == {"json", "text"}
HeaderSets == { {}, {"X-Custom"} }
Requests == [method : Methods, responseType : ResponseTypes,
             headers : HeaderSets, urlWithParams : Urls]
\* URLs the regular expression does not match: one without the token, one
\* where the token is followed by other text.
PlainUrls == { <<"u", "?", "x", "=", "1">>,
               <<"u", "?", "cb", "=", "JSONP_CALLBACK", "x">> }
PlainRequests == [method : {"JSONP"}, responseType : {"json"},
                  headers : { {} }, urlWithParams : PlainUrls]
\* The tokens a URL is made of when the rewrite is examined on its own;
\* "a" is any other text.
UrlTokens == {"a", "=", "JSONP_CALLBACK", "&"}
UrlInputs == UNION {[1..n -> UrlTokens] : n \in 0..MaxUrlLen}
CallbackNames == {nextCallback(0), nextCallback(7)}
\* What the loaded script passes to the callback; "undefined" is a call
\* with no argument.
Payloads == {"P1", "undefined"}
\* The event object the script element's error listener receives.
Causes == {"ErrorEvent"}

\* ------------------------------------------ XSRF interceptor: constants
XSRF_DEFAULT_COOKIE_NAME == "XSRF-TOKEN"
XSRF_DEFAULT_HEADER_NAME == "X-XSRF-TOKEN"

\* ------------------------------------------ XSRF interceptor: alphabets
\* URLs as sequences of characters: absolute in several spellings,
\* relative, and relative ones that only contain a scheme.
XsrfUrls ==
    { <<"h", "t", "t", "p", ":", "/", "/", "a">>,
      <<"H", "T", "T", "P", ":", "/", "/", "a">>,
      <<"h", "t", "t", "p", "s", ":", "/", "/", "a">>,
      <<"H", "t", "T", "p", "S", ":", "/", "/", "a">>,
      <<"/", "a">>,
      <<"h", "t", "t", "p">>,
      <<"a", "h", "t", "t", "p", ":", "/", "/">>,
      << >> }
XsrfMethods == {"GET", "HEAD", "POST", "DELETE"}
\* Header collections, name -> value.
XsrfHeaders ==
    { << >>,
      [n \in {XSRF_DEFAULT_HEADER_NAME} |-> "old"],
      [n \in {"Accept"} |-> "json"],
      [n \in {XSRF_DEFAULT_HEADER_NAME, "Accept"} |->
          IF n = "Accept" THEN "json" ELSE "old"] }
XsrfRequests == [method : XsrfMethods, url : XsrfUrls, headers : XsrfHeaders]
\* What HttpXsrfTokenExtractor.getToken() returns to the interceptor.
Tokens == {"null", "T1"}

\* ------------------------------------------- cookie extractor: alphabets
\* A cookie string is the sequence of its name=value pairs; '' is << >>.
CookiePairs == { <<XSRF_DEFAULT_COOKIE_NAME, "T1">>,
                 <<XSRF_DEFAULT_COOKIE_NAME, "T2">>,
                 <<"sid", "T1">> }
CookieStrings == UNION {[1..n -> CookiePairs] : n \in 0..MaxCookies}
\* doc.cookie: a cookie string, or undefined on a document without cookies.
Undefined == [defined |-> FALSE, str |-> << >>]
DocCookies == [defined : {TRUE}, str : CookieStrings] \cup {Undefined}
CookieNames == {XSRF_DEFAULT_COOKIE_NAME, "sid"}
Platforms == {"browser", "server"}

\* ------------------------------------------------------ NgIf: alphabets
\* Values bound to [ngIf], written as their JavaScript literals.
Conditions == {"true", "1", "'x'", "false", "0", "''", "null"}
\* Template references; "null" is null and "{}" an object that is no
\* TemplateRef.
TemplateRefs == {"A", "B"}
TemplateInputs == TemplateRefs \cup {"null", "{}"}

VARIABLES
    nextRequestId,    \* module-level counter
    foreignDocument,  \* TRUE once the inert document has been created
    callbackMap,      \* callback name -> exchange whose closure it holds
    lastHandle,       \* the last handle() call: its request and its outcome,
                      \* "Observable" or the message of the Error it threw
    exch,             \* one record per subscription (the closure state)
    microtasks,       \* FIFO of deferred onLoad checks (resolvedPromise.then)
    urlIn,            \* URL rewrite on its own: the URL and callback name
    urlOut,           \* ... and the rewritten URL once computed
    injected,         \* what inject() gives the interceptor: XSRF_ENABLED,
                      \* XSRF_HEADER_NAME
    intercepted,      \* the last xsrfInterceptorFn call: its request, the
                      \* token it read and the requests it passed to next
    doc,              \* the document: its cookie
    extractor,        \* the HttpXsrfCookieExtractor: platform, cookieName,
                      \* lastCookieString, lastToken, parseCount
    tokenCall,        \* the last getToken() call and what it returned
    ngIf,             \* the NgIf directive: context, thenTemplateRef,
                      \* elseTemplateRef, thenViewRef, elseViewRef (a view
                      \* is referred to by its id, 0 is null)
    viewContainer,    \* the views in the ViewContainerRef, in order
    nextViewId        \* identity of the next view createEmbeddedView makes

jsonpVars == <<nextRequestId, foreignDocument, callbackMap, lastHandle,
               exch, microtasks>>

urlVars == <<urlIn, urlOut>>

xsrfVars == <<injected, intercepted>>

cookieVars == <<doc, extractor, tokenCall>>

vars == <<nextRequestId, foreignDocument, callbackMap, lastHandle,
          exch, microtasks, urlIn, urlOut, injected, intercepted,
          doc, extractor, tokenCall, ngIf, viewContainer, nextViewId>>

ngIfVars == <<ngIf, viewContainer, nextViewId>>

\* What every step of the JSONP bridge leaves alone.
JsonpFrame == UNCHANGED <<urlVars, xsrfVars, cookieVars, ngIfVars>>

\* ------------------------------------------------------------ helpers
Remove(map, key) == [k \in (DOMAIN map) \ {key} |-> map[k]]

Put(map, key, val) == [k \in (DOMAIN map) \cup {key} |->
                          IF k = key THEN val ELSE map[k]]

\* Index of the first "=" "JSONP_CALLBACK" followed by "&" or end, 0 if none.
MatchAt(url, i) ==
    /\ i + 1 <= Len(url)
    /\ url[i] = "="
    /\ url[i + 1] = "JSONP_CALLBACK"
    /\ (i + 2 > Len(url) \/ url[i + 2] = "&")

FirstMatch(url) ==
    IF \E i \in 1..Len(url) : MatchAt(url, i)
    THEN CHOOSE i \in 1..Len(url) :
            MatchAt(url, i) /\ \A j \in 1..(i - 1) : ~MatchAt(url, j)
    ELSE 0

RewriteUrl_dropDelimiter(url, callback) ==
    LET i == FirstMatch(url)
    IN  IF i = 0 THEN url
        ELSE SubSeq(url, 1, i) \o <<callback>> \o SubSeq(url, i + 3, Len(url))

\* A rewrite that adds a callback parameter when it finds no placeholder.
RewriteUrl_appendIfAbsent(url, callback) ==
    LET i == FirstMatch(url)
    IN  IF i = 0 THEN url \o <<"&", "callback", "=", callback>>
        ELSE [k \in 1..Len(url) |-> IF k = i + 1 THEN callback ELSE url[k]]

\* req.urlWithParams.replace(/=JSONP_CALLBACK(&|$)/, `=${callback}$1`)
RewriteUrl(url, callback) ==
    LET i == FirstMatch(url)
    IN  IF i = 0 THEN url
        ELSE [k \in 1..Len(url) |-> IF k = i + 1 THEN callback ELSE url[k]]

HandleResult_noMethodCheck(req) ==
    IF req.responseType # "json" THEN JSONP_ERR_WRONG_RESPONSE_TYPE
    ELSE IF Cardinality(req.headers) > 0 THEN JSONP_ERR_HEADERS_NOT_SUPPORTED
    ELSE "Observable"

HandleResult_noHeadersCheck(req) ==
    IF req.method # "JSONP" THEN JSONP_ERR_WRONG_METHOD
    ELSE IF req.responseType # "json" THEN JSONP_ERR_WRONG_RESPONSE_TYPE
    ELSE "Observable"

HandleResult_noResponseTypeCheck(req) ==
    IF req.method # "JSONP" THEN JSONP_ERR_WRONG_METHOD
    ELSE IF Cardinality(req.headers) > 0 THEN JSONP_ERR_HEADERS_NOT_SUPPORTED
    ELSE "Observable"

\* The checks with the headers tested first.
HandleResult_headersFirst(req) ==
    IF Cardinality(req.headers) > 0 THEN JSONP_ERR_HEADERS_NOT_SUPPORTED
    ELSE IF req.method # "JSONP" THEN JSONP_ERR_WRONG_METHOD
    ELSE IF req.responseType # "json" THEN JSONP_ERR_WRONG_RESPONSE_TYPE
    ELSE "Observable"

\* The three synchronous checks of handle(), in source order.
HandleResult(req) ==
    IF req.method # "JSONP" THEN JSONP_ERR_WRONG_METHOD
    ELSE IF req.responseType # "json" THEN JSONP_ERR_WRONG_RESPONSE_TYPE
    ELSE IF Cardinality(req.headers) > 0 THEN JSONP_ERR_HEADERS_NOT_SUPPORTED
    ELSE "Observable"

\* ------------------------------------------------------------ events
SentEvent == [type |-> "Sent"]

ResponseEvent(body, url) ==
    [type |-> "Response", body |-> body, status |-> 200,
     statusText |-> "OK", url |-> url]

CompleteEvent == [type |-> "complete"]

ErrorResponse(cause, url) ==
    [type |-> "error", error |-> cause, status |-> 0,
     statusText |-> "JSONP Error", url |-> url]

\* ------------------------------------------------------------ closures
\* The operators below act on a scope S = [x, callbackMap, foreignDocument,
\* threw]: x is the exchange's closure state, the next two the shared state,
\* threw whether a statement has thrown.

cleanup_keepCallback(S) ==
    [S EXCEPT !.x.node.parentNode = "none"]

\* cleanup() that empties the whole registry.
cleanup_clearAll(S) ==
    [S EXCEPT !.x.node.parentNode = "none",
              !.callbackMap = << >>]

\* Without the parentNode test: removeChild on a detached node throws
\* before the registry is touched.
cleanup_noParentCheck(S) ==
    IF S.x.node.parentNode = "none"
    THEN [S EXCEPT !.threw = TRUE]
    ELSE [S EXCEPT !.x.node.parentNode = "none",
                   !.callbackMap = Remove(S.callbackMap, S.x.callback)]

\* cleanup(): detach the script if it is attached, delete the registry
\* entry.
cleanup(S) ==
    LET D == IF S.x.node.parentNode # "none"
             THEN [S EXCEPT !.x.node.parentNode = "none"]
             ELSE S
    IN  [D EXCEPT !.callbackMap = Remove(S.callbackMap, S.x.callback)]

\* removeListeners(node): adopt the script into the foreign document.
removeListeners(S) ==
    [S EXCEPT !.foreignDocument = TRUE,
              !.x.node.parentNode = "none",
              !.x.node.ownerDocument = "foreign"]

\* A cancellation handler that adopts the node whatever finished is.
teardown_alwaysAdopt(S) ==
    cleanup(removeListeners(S))

\* A cancellation handler that does nothing once the callback has fired.
teardown_noCleanupIfFinished(S) ==
    IF ~S.x.finished THEN cleanup(removeListeners(S)) ELSE S

\* The function returned to the Observable (cancellation handler).
teardown(S) ==
    IF ~S.x.finished THEN cleanup(removeListeners(S)) ELSE cleanup(S)

unsubscribe_notStopped(S) ==
    IF S.x.closed THEN S
    ELSE teardown([S EXCEPT !.x.closed = TRUE])

\* Subscriber closing: runs the teardown once.
unsubscribe(S) ==
    IF S.x.closed THEN S
    ELSE teardown([S EXCEPT !.x.isStopped = TRUE, !.x.closed = TRUE])

\* What the consumer finds when an event reaches it: the script detached
\* and the callback unregistered, or not.
Clean(S) ==
    /\ S.x.node.parentNode = "none"
    /\ S.x.callback \notin DOMAIN S.callbackMap

\* observer.next(ev)
observerNext(S, ev) ==
    IF S.x.isStopped THEN S
    ELSE [S EXCEPT !.x.events = Append(@, ev),
                   !.x.deliveredClean = @ /\ Clean(S)]

\* A subscriber that passes an error on after it has been stopped.
observerError_ignoresStopped(S, ev) ==
    unsubscribe([S EXCEPT !.x.events = Append(@, ev),
                          !.x.isStopped = TRUE,
                          !.x.deliveredClean = @ /\ Clean(S),
                          !.x.terminal = TRUE])

\* observer.error(ev)
observerError(S, ev) ==
    IF S.x.isStopped THEN S
    ELSE unsubscribe([S EXCEPT !.x.events = Append(@, ev),
                               !.x.isStopped = TRUE,
                               !.x.deliveredClean = @ /\ Clean(S),
                               !.x.terminal = TRUE])

\* observer.complete()
observerComplete(S) ==
    IF S.x.isStopped THEN S
    ELSE unsubscribe([S EXCEPT !.x.events = Append(@, CompleteEvent),
                               !.x.isStopped = TRUE])

responseCallback_noBody(S, data) ==
    [S EXCEPT !.callbackMap = Remove(S.callbackMap, S.x.callback),
              !.x.finished = TRUE,
              !.x.invoked = TRUE,
              !.x.received = data]

\* A callback that stays registered after it has fired.
responseCallback_keepEntry(S, data) ==
    [S EXCEPT !.x.body = data,
              !.x.finished = TRUE,
              !.x.invoked = TRUE,
              !.x.received = data]

\* A callback that records the body without setting the flag.
responseCallback_noFinished(S, data) ==
    [S EXCEPT !.callbackMap = Remove(S.callbackMap, S.x.callback),
              !.x.body = data,
              !.x.invoked = TRUE,
              !.x.received = data]

\* The response callback stored in callbackMap.
responseCallback(S, data) ==
    [S EXCEPT !.callbackMap = Remove(S.callbackMap, S.x.callback),
              !.x.body = data,
              !.x.finished = TRUE,
              !.x.invoked = TRUE,
              !.x.received = data]

deferredCheck_noFinishedCheck(S) ==
    LET C == cleanup(S)
    IN  observerComplete(
            [observerNext(C, ResponseEvent(C.x.body, C.x.url))
                EXCEPT !.x.terminal = @ \/ ~C.x.isStopped])

deferredCheck_testsBody(S) ==
    LET C == cleanup(S)
    IN  IF C.x.body \in {"null", "undefined"}
        THEN observerError(C, ErrorResponse(JSONP_ERR_NO_CALLBACK, C.x.url))
        ELSE observerComplete(
                 [observerNext(C, ResponseEvent(C.x.body, C.x.url))
                     EXCEPT !.x.terminal = @ \/ ~C.x.isStopped])

\* A check that reports first and cleans up afterwards.
deferredCheck_eventBeforeCleanup(S) ==
    cleanup(IF ~S.x.finished
            THEN observerError(S, ErrorResponse(JSONP_ERR_NO_CALLBACK, S.x.url))
            ELSE observerComplete(
                     [observerNext(S, ResponseEvent(S.x.body, S.x.url))
                         EXCEPT !.x.terminal = @ \/ ~S.x.isStopped]))

\* Body of the microtask scheduled by onLoad.
deferredCheck(S) ==
    LET C == cleanup(S)
    IN  IF ~C.x.finished
        THEN observerError(C, ErrorResponse(JSONP_ERR_NO_CALLBACK, C.x.url))
        ELSE observerComplete(
                 [observerNext(C, ResponseEvent(C.x.body, C.x.url))
                     EXCEPT !.x.terminal = @ \/ ~C.x.isStopped])

onError_deliverIfFinished(S, error) ==
    LET C == cleanup(S)
    IN  IF C.x.finished
        THEN observerComplete(
                 [observerNext(C, ResponseEvent(C.x.body, C.x.url))
                     EXCEPT !.x.terminal = @ \/ ~C.x.isStopped])
        ELSE observerError(C, ErrorResponse(error, C.x.url))

\* onError that leaves the script in place for another attempt instead of
\* reporting.
onError_retry(S, error) ==
    [S EXCEPT !.x.node.parentNode = "body"]

\* onError(error)
onError(S, error) ==
    observerError(cleanup(S), ErrorResponse(error, S.x.url))

subscribeFn_noSent(req, id, e, map) ==
    LET callback == nextCallback(id)
        url == RewriteUrl(req.urlWithParams, callback)
    IN  [x |-> [req |-> req,
                callback |-> callback,
                url |-> url,
                node |-> [src |-> url, parentNode |-> "body",
                          ownerDocument |-> "document"],
                body |-> "null",
                finished |-> FALSE,
                signal |-> "none",
                isStopped |-> FALSE,
                closed |-> FALSE,
                events |-> << >>,
                terminal |-> FALSE,
                cancelled |-> FALSE,
                invoked |-> FALSE,
                received |-> "none",
                deliveredClean |-> TRUE],
         callbackMap |-> Put(map, callback, e)]

\* The subscribe function up to the return of the cancellation handler.
subscribeFn(req, id, e, map) ==
    LET callback == nextCallback(id)
        url == RewriteUrl(req.urlWithParams, callback)
    IN  [x |-> [req |-> req,
                callback |-> callback,
                url |-> url,
                node |-> [src |-> url, parentNode |-> "body",
                          ownerDocument |-> "document"],
                body |-> "null",
                finished |-> FALSE,
                signal |-> "none",
                isStopped |-> FALSE,
                closed |-> FALSE,
                events |-> <<SentEvent>>,
                \* history, not read by the code:
                terminal |-> FALSE,
                cancelled |-> FALSE,
                invoked |-> FALSE,
                received |-> "none",
                deliveredClean |-> TRUE],
         callbackMap |-> Put(map, callback, e)]

Scope(e) == [x |-> exch[e], callbackMap |-> callbackMap,
             foreignDocument |-> foreignDocument, threw |-> FALSE]

Commit(e, S) ==
    /\ exch' = [exch EXCEPT ![e] = S.x]
    /\ callbackMap' = S.callbackMap
    /\ foreignDocument' = S.foreignDocument

\* ------------------------------------------------------------ state
JsonpInit ==
    /\ nextRequestId = 0
    /\ foreignDocument = FALSE
    /\ callbackMap = << >>
    /\ lastHandle = [called |-> FALSE]
    /\ exch = << >>
    /\ microtasks = << >>

\* The other components before anything has used them.
UrlIdle ==
    /\ urlIn = [url |-> << >>, callback |-> nextCallback(0)]
    /\ urlOut = [done |-> FALSE]

XsrfIdle ==
    /\ injected = [XSRF_ENABLED |-> TRUE,
                   XSRF_HEADER_NAME |-> XSRF_DEFAULT_HEADER_NAME]
    /\ intercepted = [called |-> FALSE]

\* new HttpXsrfCookieExtractor(doc, platform, cookieName)
HttpXsrfCookieExtractor(platform, cookieName) ==
    [platform |-> platform,
     cookieName |-> cookieName,
     lastCookieString |-> << >>,
     lastToken |-> "null",
     parseCount |-> 0]

CookieIdle ==
    /\ doc = [cookie |-> [defined |-> TRUE, str |-> << >>]]
    /\ extractor = HttpXsrfCookieExtractor("browser", XSRF_DEFAULT_COOKIE_NAME)
    /\ tokenCall = [called |-> FALSE]

\* new NgIf(_viewContainer, templateRef) on an empty container
NgIfConstructed(templateRef) ==
    /\ ngIf = [context |-> [implicit |-> "null", ngIf |-> "null"],
               thenTemplateRef |-> templateRef,
               elseTemplateRef |-> "null",
               thenViewRef |-> 0,
               elseViewRef |-> 0,
               threw |-> FALSE]
    /\ viewContainer = << >>
    /\ nextViewId = 1

NgIfIdle == NgIfConstructed("A")

Init ==
    /\ JsonpInit
    /\ UrlIdle
    /\ XsrfIdle
    /\ CookieIdle
    /\ NgIfIdle

\* handle() that allocates the callback name itself instead of leaving it
\* to the subscribe function.
Handle_eager(req) ==
    /\ lastHandle' = [called |-> TRUE, req |-> req, result |-> HandleResult(req)]
    /\ nextRequestId' = IF HandleResult(req) = "Observable"
                           /\ nextRequestId < MaxExchanges
                        THEN nextRequestId + 1 ELSE nextRequestId
    /\ UNCHANGED <<foreignDocument, callbackMap, exch, microtasks>>
    /\ JsonpFrame

\* handle(req): throws, or returns a cold observable (which closes over
\* req and nothing else).
Handle(req) ==
    /\ lastHandle' = [called |-> TRUE, req |-> req, result |-> HandleResult(req)]
    /\ UNCHANGED <<nextRequestId, foreignDocument, callbackMap, exch, microtasks>>
    /\ JsonpFrame

Subscribe_noIncrement(req) ==
    /\ HandleResult(req) = "Observable"
    /\ Len(exch) < MaxExchanges
    /\ LET e == Len(exch) + 1
           S == subscribeFn(req, nextRequestId, e, callbackMap)
       IN  /\ exch' = Append(exch, S.x)
           /\ callbackMap' = S.callbackMap
    /\ UNCHANGED <<nextRequestId, foreignDocument, lastHandle, microtasks>>
    /\ JsonpFrame

\* handle(req).subscribe(): runs the subscribe function of the observable
\* that handle returns for req.
Subscribe(req) ==
    /\ HandleResult(req) = "Observable"
    /\ Len(exch) < MaxExchanges
    /\ LET e == Len(exch) + 1
           S == subscribeFn(req, nextRequestId, e, callbackMap)
       IN  /\ exch' = Append(exch, S.x)
           /\ callbackMap' = S.callbackMap
    /\ nextRequestId' = nextRequestId + 1
    /\ UNCHANGED <<foreignDocument, lastHandle, microtasks>>
    /\ JsonpFrame

\* A loaded script that holds on to the callback function itself and calls
\* it whether or not its name is still registered.
InvokeCallback_retained(name, data) ==
    /\ \E e \in DOMAIN exch :
          /\ exch[e].callback = name
          /\ Commit(e, responseCallback(Scope(e), data))
    /\ UNCHANGED <<nextRequestId, lastHandle, microtasks>>
    /\ JsonpFrame

\* The loaded script calls window[name](data).
InvokeCallback(name, data) ==
    /\ name \in DOMAIN callbackMap
    /\ Commit(callbackMap[name], responseCallback(Scope(callbackMap[name]), data))
    /\ UNCHANGED <<nextRequestId, lastHandle, microtasks>>
    /\ JsonpFrame

LoadComplete_noMicrotask(e) ==
    /\ exch[e].signal = "none"
    /\ exch' = [exch EXCEPT ![e].signal = "load"]
    /\ UNCHANGED <<nextRequestId, foreignDocument, callbackMap, lastHandle, microtasks>>
    /\ JsonpFrame

LoadComplete_sync(e) ==
    /\ exch[e].signal = "none"
    /\ Commit(e, deferredCheck([Scope(e) EXCEPT !.x.signal = "load"]))
    /\ UNCHANGED <<nextRequestId, lastHandle, microtasks>>
    /\ JsonpFrame

\* The script element fires "load": onLoad schedules the deferred check.
LoadComplete(e) ==
    /\ exch[e].signal = "none"
    /\ exch' = [exch EXCEPT ![e].signal = "load"]
    /\ microtasks' = Append(microtasks, e)
    /\ UNCHANGED <<nextRequestId, foreignDocument, callbackMap, lastHandle>>
    /\ JsonpFrame

\* The microtask scheduled by onLoad runs.
DeferredCheck ==
    /\ microtasks # << >>
    /\ Commit(Head(microtasks), deferredCheck(Scope(Head(microtasks))))
    /\ microtasks' = Tail(microtasks)
    /\ UNCHANGED <<nextRequestId, lastHandle>>
    /\ JsonpFrame

\* The script element fires "error".
LoadError(e, cause) ==
    /\ exch[e].signal = "none"
    /\ Commit(e, onError([Scope(e) EXCEPT !.x.signal = "error"], cause))
    /\ UNCHANGED <<nextRequestId, lastHandle, microtasks>>
    /\ JsonpFrame

\* The consumer unsubscribes.
Unsubscribe(e) ==
    /\ ~exch[e].closed
    /\ Commit(e, unsubscribe([Scope(e) EXCEPT !.x.cancelled = TRUE]))
    /\ UNCHANGED <<nextRequestId, lastHandle, microtasks>>
    /\ JsonpFrame

Next ==
    \/ \E req \in Requests : Handle(req)
    \/ \E req \in Requests : Subscribe(req)
    \/ \E e \in 1..Len(exch), data \in Payloads :
          InvokeCallback(exch[e].callback, data)
    \/ \E e \in 1..Len(exch) : LoadComplete(e)
    \/ DeferredCheck
    \/ \E e \in 1..Len(exch), cause \in Causes : LoadError(e, cause)
    \/ \E e \in 1..Len(exch) : Unsubscribe(e)

Spec == Init /\ [][Next]_vars

\* ------------------------------------------------ the URL rewrite alone
UrlInit ==
    /\ JsonpInit
    /\ XsrfIdle
    /\ CookieIdle
    /\ NgIfIdle
    /\ urlIn \in [url : UrlInputs, callback : CallbackNames]
    /\ urlOut = [done |-> FALSE]

\* const url = req.urlWithParams.replace(...)
Rewrite ==
    /\ ~urlOut.done
    /\ urlOut' = [done |-> TRUE, url |-> RewriteUrl(urlIn.url, urlIn.callback)]
    /\ UNCHANGED <<jsonpVars, urlIn, xsrfVars, cookieVars, ngIfVars>>

UrlNext == Rewrite

UrlSpec == UrlInit /\ [][UrlNext]_vars

\* ------------------------------- requests whose URL has no placeholder
PlainNext ==
    \/ \E req \in PlainRequests : Handle(req)
    \/ \E req \in PlainRequests : Subscribe(req)
    \/ \E e \in 1..Len(exch), data \in Payloads :
          InvokeCallback(exch[e].callback, data)
    \/ \E e \in 1..Len(exch) : LoadComplete(e)
    \/ DeferredCheck
    \/ \E e \in 1..Len(exch), cause \in Causes : LoadError(e, cause)
    \/ \E e \in 1..Len(exch) : Unsubscribe(e)

PlainSpec == Init /\ [][PlainNext]_vars

\* ------------------------------------------------ the XSRF interceptor
\* String.prototype.toLowerCase, on the characters the URLs are made of.
ToLowerCase(str) ==
    [i \in 1..Len(str) |->
        CASE str[i] = "H" -> "h"
          [] str[i] = "T" -> "t"
          [] str[i] = "P" -> "p"
          [] str[i] = "S" -> "s"
          [] OTHER -> str[i]]

\* String.prototype.startsWith
StartsWith(str, prefix) ==
    /\ Len(str) >= Len(prefix)
    /\ SubSeq(str, 1, Len(prefix)) = prefix

\* An interceptor that sets the header whether or not the request has it.
xsrfInterceptorFn_overwrite(req, inj, token) ==
    LET lcUrl == ToLowerCase(req.url)
    IN  IF \/ ~inj.XSRF_ENABLED
           \/ req.method = "GET"
           \/ req.method = "HEAD"
           \/ StartsWith(lcUrl, <<"h", "t", "t", "p", ":", "/", "/">>)
           \/ StartsWith(lcUrl, <<"h", "t", "t", "p", "s", ":", "/", "/">>)
        THEN [token |-> "notRead", next |-> <<req>>]
        ELSE IF token # "null"
             THEN [token |-> token,
                   next |-> << [req EXCEPT !.headers =
                                   Put(@, inj.XSRF_HEADER_NAME, token)] >>]
             ELSE [token |-> token, next |-> <<req>>]

\* xsrfInterceptorFn(req, next) with inj what inject() returns and token
\* what the extractor's getToken() returns when it is asked; the result is
\* the token read, if any, and the calls of next in order.
xsrfInterceptorFn(req, inj, token) ==
    LET lcUrl == ToLowerCase(req.url)
    IN  IF \/ ~inj.XSRF_ENABLED
           \/ req.method = "GET"
           \/ req.method = "HEAD"
           \/ StartsWith(lcUrl, <<"h", "t", "t", "p", ":", "/", "/">>)
           \/ StartsWith(lcUrl, <<"h", "t", "t", "p", "s", ":", "/", "/">>)
        THEN [token |-> "notRead", next |-> <<req>>]
        ELSE IF token # "null" /\ inj.XSRF_HEADER_NAME \notin DOMAIN req.headers
             THEN [token |-> token,
                   next |-> << [req EXCEPT !.headers =
                                   Put(@, inj.XSRF_HEADER_NAME, token)] >>]
             ELSE [token |-> token, next |-> <<req>>]

XsrfInit ==
    /\ JsonpInit
    /\ UrlIdle
    /\ CookieIdle
    /\ NgIfIdle
    /\ injected \in [XSRF_ENABLED : BOOLEAN,
                      XSRF_HEADER_NAME : {XSRF_DEFAULT_HEADER_NAME}]
    /\ intercepted = [called |-> FALSE]

\* One request goes through the interceptor.
Intercept(req, token) ==
    /\ intercepted' = [called |-> TRUE, req |-> req,
                       out |-> xsrfInterceptorFn(req, injected, token)]
    /\ UNCHANGED <<jsonpVars, urlVars, cookieVars, ngIfVars, injected>>

XsrfNext == \E req \in XsrfRequests, token \in Tokens : Intercept(req, token)

XsrfSpec == XsrfInit /\ [][XsrfNext]_vars

\* ------------------------------------------------ the cookie extractor
\* parseCookieValue(cookieStr, name): the value of the first cookie of
\* that name, null if there is none.
RECURSIVE parseCookieValue(_, _)
parseCookieValue(cookieStr, name) ==
    IF cookieStr = << >> THEN "null"
    ELSE IF Head(cookieStr)[1] = name THEN Head(cookieStr)[2]
    ELSE parseCookieValue(Tail(cookieStr), name)

\* this.doc.cookie || ''
CookieString(d) == IF ~d.cookie.defined THEN << >> ELSE d.cookie.str

\* A cache that takes two cookie strings of the same length for the same.
getToken_cacheByLength(x, d) ==
    IF x.platform = "server" THEN [x |-> x, value |-> "null"]
    ELSE LET cookieString == CookieString(d)
             y == IF Len(cookieString) # Len(x.lastCookieString)
                  THEN [x EXCEPT
                           !.parseCount = @ + 1,
                           !.lastToken = parseCookieValue(cookieString, x.cookieName),
                           !.lastCookieString = cookieString]
                  ELSE x
         IN  [x |-> y, value |-> y.lastToken]

\* getToken() on extractor x with document d: the extractor afterwards and
\* the value returned.
getToken(x, d) ==
    IF x.platform = "server" THEN [x |-> x, value |-> "null"]
    ELSE LET cookieString == CookieString(d)
             y == IF cookieString # x.lastCookieString
                  THEN [x EXCEPT
                           !.parseCount = @ + 1,
                           !.lastToken = parseCookieValue(cookieString, x.cookieName),
                           !.lastCookieString = cookieString]
                  ELSE x
         IN  [x |-> y, value |-> y.lastToken]

CookieInit ==
    /\ JsonpInit
    /\ UrlIdle
    /\ XsrfIdle
    /\ NgIfIdle
    /\ doc \in [cookie : DocCookies]
    /\ \E platform \in Platforms, cookieName \in CookieNames :
          extractor = HttpXsrfCookieExtractor(platform, cookieName)
    /\ tokenCall = [called |-> FALSE]

\* The browser, a script or a response changes the document's cookies.
SetCookie(c) ==
    /\ c # doc.cookie
    /\ extractor.parseCount < MaxParses
    /\ doc' = [doc EXCEPT !.cookie = c]
    /\ UNCHANGED <<jsonpVars, urlVars, xsrfVars, ngIfVars, extractor, tokenCall>>

GetToken ==
    /\ extractor' = getToken(extractor, doc).x
    /\ tokenCall' = [called |-> TRUE, value |-> getToken(extractor, doc).value]
    /\ UNCHANGED <<jsonpVars, urlVars, xsrfVars, ngIfVars, doc>>

CookieNext ==
    \/ \E c \in DocCookies : SetCookie(c)
    \/ GetToken

CookieSpec == CookieInit /\ [][CookieNext]_vars

\* ------------------------------------------------------------- NgIf
\* JavaScript truthiness of a bound value.
Truthy(condition) == condition \notin {"false", "0", "''", "null"}

\* The operators below act on D = [dir, viewContainer, nextViewId]: the
\* directive's fields, its view container and the next view identity.

\* this._viewContainer.clear()
clear(D) == [D EXCEPT !.viewContainer = << >>]

\* this._viewContainer.createEmbeddedView(templateRef, this._context):
\* a new view, appended to the container.
createEmbeddedView(D, templateRef) ==
    [D EXCEPT !.viewContainer = Append(@, [id |-> D.nextViewId,
                                           template |-> templateRef]),
              !.nextViewId = @ + 1]

\* _updateView()
updateView(D) ==
    IF Truthy(D.dir.context.implicit)
    THEN IF D.dir.thenViewRef = 0
         THEN LET C == [clear(D) EXCEPT !.dir.elseViewRef = 0]
              IN  IF C.dir.thenTemplateRef # "null"
                  THEN [createEmbeddedView(C, C.dir.thenTemplateRef)
                           EXCEPT !.dir.thenViewRef = C.nextViewId]
                  ELSE C
         ELSE D
    ELSE IF D.dir.elseViewRef = 0
         THEN LET C == [clear(D) EXCEPT !.dir.thenViewRef = 0]
              IN  IF C.dir.elseTemplateRef # "null"
                  THEN [createEmbeddedView(C, C.dir.elseTemplateRef)
                           EXCEPT !.dir.elseViewRef = C.nextViewId]
                  ELSE C
         ELSE D

\* assertTemplate(property, templateRef): null or a TemplateRef passes.
assertTemplate(templateRef) == templateRef \in TemplateRefs \cup {"null"}

\* set ngIf(condition)
setNgIf(D, condition) ==
    updateView([D EXCEPT !.dir.context = [implicit |-> condition,
                                          ngIf |-> condition],
                         !.dir.threw = FALSE])

\* A setter that keeps the reference to the view of the old template.
setNgIfThen_keepView(D, templateRef) ==
    IF ~assertTemplate(templateRef) THEN [D EXCEPT !.dir.threw = TRUE]
    ELSE updateView([D EXCEPT !.dir.thenTemplateRef = templateRef,
                              !.dir.threw = FALSE])

\* set ngIfThen(templateRef)
setNgIfThen(D, templateRef) ==
    IF ~assertTemplate(templateRef) THEN [D EXCEPT !.dir.threw = TRUE]
    ELSE updateView([D EXCEPT !.dir.thenTemplateRef = templateRef,
                              !.dir.thenViewRef = 0,
                              !.dir.threw = FALSE])

\* set ngIfElse(templateRef)
setNgIfElse(D, templateRef) ==
    IF ~assertTemplate(templateRef) THEN [D EXCEPT !.dir.threw = TRUE]
    ELSE updateView([D EXCEPT !.dir.elseTemplateRef = templateRef,
                              !.dir.elseViewRef = 0,
                              !.dir.threw = FALSE])

Directive == [dir |-> ngIf, viewContainer |-> viewContainer,
              nextViewId |-> nextViewId]

NgIfCommit(D) ==
    /\ ngIf' = D.dir
    /\ viewContainer' = D.viewContainer
    /\ nextViewId' = D.nextViewId
    /\ UNCHANGED <<jsonpVars, urlVars, xsrfVars, cookieVars>>

NgIfInit ==
    /\ JsonpInit
    /\ UrlIdle
    /\ XsrfIdle
    /\ CookieIdle
    /\ \E templateRef \in TemplateRefs : NgIfConstructed(templateRef)

\* The inputs are assigned by change detection, in any order.
SetNgIf(condition) ==
    /\ nextViewId <= MaxViews
    /\ NgIfCommit(setNgIf(Directive, condition))

SetNgIfThen(templateRef) ==
    /\ nextViewId <= MaxViews
    /\ NgIfCommit(setNgIfThen(Directive, templateRef))

SetNgIfElse(templateRef) ==
    /\ nextViewId <= MaxViews
    /\ NgIfCommit(setNgIfElse(Directive, templateRef))

NgIfNext ==
    \/ \E condition \in Conditions : SetNgIf(condition)
    \/ \E templateRef \in TemplateInputs : SetNgIfThen(templateRef)
    \/ \E templateRef \in TemplateInputs : SetNgIfElse(templateRef)

NgIfSpec == NgIfInit /\ [][NgIfNext]_vars

\* The scheduler always runs a queued microtask.
FairSpec == Spec /\ WF_vars(DeferredCheck)

\* ------------------------------------------------------------ vocabulary
Exchanges == 1..Len(exch)

Indices(events, types) == {i \in 1..Len(events) : events[i].type \in types}

\* The URL the exchange is expected to report: the request URL rewritten
\* with the exchange's callback identifier.
RewrittenUrl(x) == RewriteUrl(x.req.urlWithParams, x.callback)

Pending(e) == \E i \in 1..Len(microtasks) : microtasks[i] = e

\* A step that is a handle() call with request req.
HandleCalled(req) ==
    /\ lastHandle' # lastHandle
    /\ lastHandle'.called
    /\ lastHandle'.req = req

NoSideEffect ==
    UNCHANGED <<nextRequestId, foreignDocument, callbackMap, exch, microtasks>>

\* ------------------------------------------------------------ C1
\* C1: in every subscription "Sent" is emitted exactly once, as the first
\* event, and at most one terminal event (Response or error) is emitted.
C1_SentOnceOneTerminal ==
    \A e \in Exchanges :
        LET ev == exch[e].events
        IN  /\ Len(ev) >= 1
            /\ Indices(ev, {"Sent"}) = {1}
            /\ Cardinality(Indices(ev, {"Response", "error"})) <= 1

C1_Witness ==
    \E e, f \in Exchanges :
        /\ Indices(exch[e].events, {"Response"}) # {}
        /\ Indices(exch[f].events, {"error"}) # {}
        /\ exch[f].invoked

\* ------------------------------------------------------------ C2
\* C2: every subscription for which the loader has signalled load-complete
\* or load-error and from which the consumer has not unsubscribed
\* eventually has its terminal event.  Signalled, terminal and cancelled
\* are stable, so this is: again and again, every signalled subscription
\* is terminal or cancelled.
Settled(e) ==
    exch[e].signal = "none" \/ exch[e].terminal \/ exch[e].cancelled

C2_EventuallyTerminal == []<>(\A e \in Exchanges : Settled(e))

C2_Witness ==
    \E e \in Exchanges :
        /\ exch[e].signal = "load"
        /\ exch[e].terminal
        /\ ~exch[e].cancelled

\* ------------------------------------------------------------ C3
\* C3: a handle() call with a method other than "JSONP" throws the
\* wrong-method error and changes neither the counter, the registry nor
\* any script element.
C3_WrongMethod ==
    [][\A req \in Requests :
          (req.method # "JSONP" /\ HandleCalled(req)) =>
              /\ lastHandle'.result = JSONP_ERR_WRONG_METHOD
              /\ NoSideEffect]_vars

C3_Witness ==
    /\ lastHandle.called
    /\ lastHandle.result = JSONP_ERR_WRONG_METHOD
    /\ DOMAIN callbackMap # {}

\* ------------------------------------------------------------ C4
\* C4 as stated: every handle() call with non-empty headers throws the
\* headers-not-supported error, without side effect.
C4_Original ==
    [][\A req \in Requests :
          (req.headers # {} /\ HandleCalled(req)) =>
              /\ lastHandle'.result = JSONP_ERR_HEADERS_NOT_SUPPORTED
              /\ NoSideEffect]_vars

\* C4 amended: a handle() call with non-empty headers throws without side
\* effect, and the error is the headers-not-supported error when the
\* method is "JSONP" and the response type is "json".
C4_Headers ==
    [][\A req \in Requests :
          (req.headers # {} /\ HandleCalled(req)) =>
              /\ (req.method = "JSONP" /\ req.responseType = "json")
                    => lastHandle'.result = JSONP_ERR_HEADERS_NOT_SUPPORTED
              /\ lastHandle'.result # "Observable"
              /\ NoSideEffect]_vars

C4_Witness ==
    /\ lastHandle.called
    /\ lastHandle.result = JSONP_ERR_HEADERS_NOT_SUPPORTED
    /\ \E e \in Exchanges : exch[e].node.parentNode = "body"

\* ------------------------------------------------------------ C5
\* C5 as stated: every handle() call whose response type is not "json"
\* throws the wrong-response-type error and returns no observable.
C5_Original ==
    [][\A req \in Requests :
          (req.responseType # "json" /\ HandleCalled(req)) =>
              /\ lastHandle'.result = JSONP_ERR_WRONG_RESPONSE_TYPE
              /\ NoSideEffect]_vars

\* C5 amended: a handle() call whose response type is not "json" throws
\* and returns no observable, and the error is the wrong-response-type
\* error when the method is "JSONP".
C5_ResponseType ==
    [][\A req \in Requests :
          (req.responseType # "json" /\ HandleCalled(req)) =>
              /\ req.method = "JSONP"
                    => lastHandle'.result = JSONP_ERR_WRONG_RESPONSE_TYPE
              /\ lastHandle'.result # "Observable"
              /\ NoSideEffect]_vars

C5_Witness ==
    /\ lastHandle.called
    /\ lastHandle.result = JSONP_ERR_WRONG_RESPONSE_TYPE
    /\ \E e \in Exchanges : exch[e].finished

\* ------------------------------------------------------------ C6
\* The step in which the deferred check of exchange e runs.
DeferredRan(e) ==
    /\ microtasks # << >>
    /\ Head(microtasks) = e
    /\ microtasks' = Tail(microtasks)

\* C6: when the deferred load-complete check of a live subscription runs
\* after the callback was invoked with payload P, the subscription is
\* delivered the response (body P, 200, "OK", rewritten URL) followed by
\* completion.
C6_SuccessCarriesPayload ==
    [][\A e \in Exchanges :
          (DeferredRan(e) /\ exch[e].invoked /\ ~exch[e].isStopped) =>
              exch'[e].events = exch[e].events \o
                  << ResponseEvent(exch[e].received, RewrittenUrl(exch[e])),
                     CompleteEvent >>]_vars

C6_Witness ==
    \E e \in Exchanges :
        /\ exch[e].received = "P1"
        /\ exch[e].signal = "load"
        /\ Len(exch[e].events) = 3
        /\ exch[e].events[2].type = "Response"
        /\ exch[e].events[2].body = "P1"
        /\ exch[e].events[3] = CompleteEvent

\* ------------------------------------------------------------ C7
\* The step in which the script of exchange e fires "error".
ErrorSignalled(e) == exch[e].signal = "none" /\ exch'[e].signal = "error"

\* C7: a load error on a live subscription delivers an error event with
\* status 0, the cause and the rewritten URL, whether or not the callback
\* had fired; an exchange whose script fired "error" never delivers a
\* response.
C7_LoadErrorWins ==
    [][/\ \A e \in Exchanges :
            (ErrorSignalled(e) /\ ~exch[e].isStopped) =>
                \E cause \in Causes :
                    /\ exch'[e].events = Append(exch[e].events,
                           ErrorResponse(cause, RewrittenUrl(exch[e])))
                    /\ exch'[e].events[Len(exch'[e].events)].status = 0
       /\ \A e \in DOMAIN exch' :
            exch'[e].signal = "error" =>
                Indices(exch'[e].events, {"Response"}) = {}]_vars

C7_Witness ==
    \E e \in Exchanges :
        /\ exch[e].invoked
        /\ exch[e].received = "P1"
        /\ exch[e].signal = "error"
        /\ Len(exch[e].events) = 2
        /\ exch[e].events[2].type = "error"

\* ------------------------------------------------------------ C8
\* C8: when the deferred load-complete check of a live subscription runs
\* and the callback has not been invoked, the subscription is delivered
\* the NoCallbackInvoked error (status 0, rewritten URL); such an exchange
\* never has a response or a completion.
NoCallbackError(x) == ErrorResponse(JSONP_ERR_NO_CALLBACK, RewrittenUrl(x))

C8_NoCallbackInvoked ==
    [][/\ \A e \in Exchanges :
            (DeferredRan(e) /\ ~exch[e].invoked /\ ~exch[e].isStopped) =>
                /\ exch'[e].events = Append(exch[e].events, NoCallbackError(exch[e]))
                /\ NoCallbackError(exch[e]).status = 0
       /\ \A e \in DOMAIN exch' :
            (\E i \in 1..Len(exch'[e].events) :
                 exch'[e].events[i] = NoCallbackError(exch'[e])) =>
                Indices(exch'[e].events, {"Response", "complete"}) = {}]_vars

C8_Witness ==
    \E e \in Exchanges :
        /\ ~exch[e].invoked
        /\ exch[e].events = <<SentEvent, NoCallbackError(exch[e])>>

\* ------------------------------------------------------------ C9
\* C9: once an exchange has had its terminal event or has been cancelled,
\* the registry has no entry under its callback identifier, in that state
\* and in every later one.
C9_RegistryCleared ==
    \A e \in Exchanges :
        (exch[e].terminal \/ exch[e].cancelled) =>
            exch[e].callback \notin DOMAIN callbackMap

C9_Witness ==
    \E e, f \in Exchanges :
        /\ exch[e].terminal /\ ~exch[e].invoked
        /\ exch[f].cancelled /\ ~exch[f].invoked

\* ------------------------------------------------------------ C10
\* C10: a subscription cancelled before its terminal event never has a
\* response, an error or a completion, whatever the loader signals
\* afterwards.
C10_NoEventAfterCancel ==
    \A e \in Exchanges :
        exch[e].cancelled =>
            Indices(exch[e].events, {"Response", "error", "complete"}) = {}

C10_Witness ==
    \E e, f \in Exchanges :
        /\ exch[e].cancelled /\ exch[e].signal = "load" /\ ~Pending(e)
        /\ exch[f].cancelled /\ exch[f].signal = "error" /\ exch[f].invoked

\* ------------------------------------------------------------ C11
\* C11: no two subscriptions have the same callback identifier; the counter
\* has been incremented exactly once per subscription, so the e-th
\* subscription holds the name built from e - 1 and the names increase in
\* subscription order.
C11_UniqueCallbackIds ==
    /\ nextRequestId = Len(exch)
    /\ \A e \in Exchanges : exch[e].callback = nextCallback(e - 1)
    /\ \A e, f \in Exchanges : e # f => exch[e].callback # exch[f].callback

\* Two subscriptions started back to back, both still in flight.
C11_Witness ==
    /\ Len(exch) >= 2
    /\ exch[1].callback \in DOMAIN callbackMap
    /\ exch[2].callback \in DOMAIN callbackMap
    /\ exch[1].signal = "none" /\ exch[2].signal = "none"

\* ------------------------------------------------------------ C12
\* The step in which the script of exchange e fires "load".
LoadSignalled(e) == exch[e].signal = "none" /\ exch'[e].signal = "load"

\* C12: the load-complete signal itself decides nothing (no event, no
\* cleanup: the script stays attached and the registry entry stays as it
\* was, the check is queued); the decision is taken when the deferred check
\* runs and goes by whether the callback has been invoked by then; while
\* the check is queued the callback of a live subscription is still
\* registered, so an invocation made in that window ends in success.
C12_DecisionDeferred ==
    [][\A e \in Exchanges :
          /\ LoadSignalled(e) =>
                /\ exch'[e].events = exch[e].events
                /\ exch'[e].node = exch[e].node
                /\ callbackMap' = callbackMap
                /\ \E i \in 1..Len(microtasks') : microtasks'[i] = e
          /\ (Pending(e) /\ ~exch[e].isStopped /\ ~exch[e].invoked) =>
                exch[e].callback \in DOMAIN callbackMap
          /\ (DeferredRan(e) /\ ~exch[e].isStopped) =>
                IF exch[e].invoked
                THEN Indices(exch'[e].events, {"Response"}) # {}
                     /\ Indices(exch'[e].events, {"error"}) = {}
                ELSE Indices(exch'[e].events, {"error"}) # {}
                     /\ Indices(exch'[e].events, {"Response"}) = {}]_vars

\* One subscription is between the load signal and its deferred check,
\* undecided and with its callback still callable; another was decided as
\* success by its deferred check.
C12_Witness ==
    \E e, f \in Exchanges :
        /\ exch[e].signal = "load" /\ Pending(e)
        /\ exch[e].events = <<SentEvent>> /\ ~exch[e].isStopped
        /\ exch[e].callback \in DOMAIN callbackMap
        /\ exch[e].node.parentNode = "body"
        /\ exch[f].signal = "load" /\ ~Pending(f)
        /\ exch[f].invoked
        /\ Indices(exch[f].events, {"Response"}) # {}

\* ------------------------------------------------------------ C13
\* Where the placeholder is: the least i with "=" at i, "JSONP_CALLBACK" at
\* i + 1 and then "&" or the end of the URL.
IsPlaceholderAt(url, i) ==
    /\ i >= 1 /\ i + 1 <= Len(url)
    /\ url[i] = "=" /\ url[i + 1] = "JSONP_CALLBACK"
    /\ (i + 1 = Len(url) \/ url[i + 2] = "&")

\* C13: the rewritten URL is the URL with "JSONP_CALLBACK" of the first
\* placeholder replaced by the callback name: the "=" before it, the "&"
\* after it, every later placeholder and every other token stay where and
\* what they were; a URL without placeholder is returned as it is.
C13_RewriteExact ==
    urlOut.done =>
        LET url == urlIn.url
            out == urlOut.url
            P == {i \in 1..Len(url) : IsPlaceholderAt(url, i)}
        IN  IF P = {} THEN out = url
            ELSE \E i \in P :
                    /\ \A j \in P : i <= j
                    /\ out = SubSeq(url, 1, i) \o <<urlIn.callback>>
                                \o SubSeq(url, i + 2, Len(url))
                    /\ Len(out) = Len(url)
                    /\ \A j \in P \ {i} : IsPlaceholderAt(out, j)

\* "=JSONP_CALLBACK&=JSONP_CALLBACK" rewritten with callback 7.
C13_Witness ==
    /\ urlOut.done
    /\ urlIn.url = <<"=", "JSONP_CALLBACK", "&", "=", "JSONP_CALLBACK">>
    /\ urlIn.callback = nextCallback(7)
    /\ urlOut.url = <<"=", "ng_jsonp_callback_7", "&", "=", "JSONP_CALLBACK">>

Subscribed == Len(exch') = Len(exch) + 1

\* C15: a handle() call that returns the observable changes neither the
\* counter, the registry nor any script; a subscription takes a callback
\* name no earlier subscription has, attaches a script of its own pointing
\* at its own rewritten URL, starts with its own flag false and body null,
\* and leaves the earlier subscriptions as they are.
C15_Cold ==
    [][/\ \A req \in Requests :
            (HandleCalled(req) /\ lastHandle'.result = "Observable")
                => NoSideEffect
       /\ Subscribed =>
            LET n == Len(exch')
                x == exch'[n]
            IN  /\ \A e \in Exchanges : exch'[e] = exch[e]
                /\ \A e \in Exchanges : exch[e].callback # x.callback
                /\ x.callback = nextCallback(nextRequestId)
                /\ nextRequestId' = nextRequestId + 1
                /\ x.node = [src |-> RewrittenUrl(x), parentNode |-> "body",
                             ownerDocument |-> "document"]
                /\ ~x.finished /\ x.body = "null"
                /\ x.events = <<SentEvent>>
                /\ x.callback \notin DOMAIN callbackMap
                /\ DOMAIN callbackMap' = DOMAIN callbackMap \cup {x.callback}
                /\ callbackMap'[x.callback] = n]_vars

\* The same request subscribed twice: two exchanges with their own names
\* and their own state.
C15_Witness ==
    /\ Len(exch) >= 2
    /\ exch[1].req = exch[2].req
    /\ exch[1].callback # exch[2].callback
    /\ exch[1].finished /\ exch[1].body = "P1"
    /\ ~exch[2].finished /\ exch[2].body = "null"
    /\ exch[2].node.parentNode = "body"
    /\ lastHandle.called /\ lastHandle.result = "Observable"

\* ------------------------------------------------------------ C16
\* cleanup() has run for exchange e: by the deferred check, by onError or
\* by the cancellation handler.
Cleaned(e) ==
    exch[e].closed \/ (exch[e].signal # "none" /\ ~Pending(e))

\* C16: running cleanup() again gives what the first run gave, and where
\* cleanup() has already run it changes neither the scripts nor the
\* registry; no run throws.
C16_CleanupIdempotent ==
    \A e \in Exchanges :
        LET S == Scope(e)
            First == cleanup(S)
            Second == cleanup(First)
        IN  /\ Second = First
            /\ ~First.threw /\ ~Second.threw
            /\ Cleaned(e) => First = S

\* cleanup() has run twice for e (in the deferred check, then in the teardown
\* after the terminal event) and twice for f (on unsubscribe, then in
\* onError).
C16_Witness ==
    \E e, f \in Exchanges :
        /\ exch[e].signal = "load" /\ exch[e].terminal /\ exch[e].closed
        /\ exch[f].cancelled /\ exch[f].signal = "error"

\* ------------------------------------------------------------ C17
\* The exchanges a step belongs to: the one it starts, those whose closure
\* state it changes, and the one whose deferred check it runs.
StepOf ==
    {e \in DOMAIN exch' :
        \/ e \notin DOMAIN exch
        \/ exch'[e] # exch[e]
        \/ DeferredRan(e)}

SameEntry(k) ==
    /\ k \in DOMAIN callbackMap <=> k \in DOMAIN callbackMap'
    /\ k \in DOMAIN callbackMap => callbackMap'[k] = callbackMap[k]

\* C17: a step belongs to at most one exchange; it leaves every registry
\* entry under another key than that exchange's callback identifier as it
\* was, and leaves finished and body of every other exchange as they were.
\* A step of no exchange changes neither the registry nor any exchange.
C17_Frame ==
    [][/\ Cardinality(StepOf) <= 1
       /\ StepOf = {} => UNCHANGED <<callbackMap, exch>>
       /\ \A e \in StepOf :
            /\ \A k \in (DOMAIN callbackMap \cup DOMAIN callbackMap')
                        \ {exch'[e].callback} : SameEntry(k)
            /\ \A f \in Exchanges \ {e} :
                  /\ exch'[f].finished = exch[f].finished
                  /\ exch'[f].body = exch[f].body]_vars

\* One exchange has run its cleanup and ended while the other is between
\* its load signal and its deferred check with its callback still
\* registered.
C17_Witness ==
    \E e, f \in Exchanges :
        /\ exch[e].terminal /\ exch[e].node.parentNode = "none"
        /\ ~exch[f].terminal /\ ~exch[f].closed
        /\ exch[f].callback \in DOMAIN callbackMap
        /\ exch[f].signal = "load" /\ Pending(f)

\* ------------------------------------------------------------ C18
\* C18: a subscription has the one script element made when it starts: its
\* src never changes, once detached it is never attached again, and it
\* signals at most once.  The deferred check and the load error start no
\* subscription, take no callback name and leave the script detached; a
\* subscription that has had its terminal event has no script attached.
C18_NoRetry ==
    [][/\ Len(exch') \in {Len(exch), Len(exch) + 1}
       /\ nextRequestId' - nextRequestId = Len(exch') - Len(exch)
       /\ \A e \in Exchanges :
            /\ exch'[e].node.src = exch[e].node.src
            /\ exch[e].node.parentNode # "body"
                  => exch'[e].node.parentNode # "body"
            /\ exch[e].signal # "none" => exch'[e].signal = exch[e].signal
            /\ (DeferredRan(e) \/ ErrorSignalled(e)) =>
                  /\ Len(exch') = Len(exch)
                  /\ nextRequestId' = nextRequestId
                  /\ exch'[e].node.parentNode = "none"
            /\ exch'[e].terminal => exch'[e].node.parentNode = "none"]_vars

\* One subscription ended with the no-callback error, the other with a load
\* error; two scripts were made and both are detached.
C18_Witness ==
    \E e, f \in Exchanges :
        /\ exch[e].events = <<SentEvent, NoCallbackError(exch[e])>>
        /\ exch[f].signal = "error" /\ exch[f].terminal
        /\ exch[e].node.parentNode = "none"
        /\ exch[f].node.parentNode = "none"
        /\ nextRequestId = 2 /\ Len(exch) = 2

\* ------------------------------------------------------------ C19
\* C19: the registry holds an entry under an exchange's callback identifier
\* exactly when its callback has not fired and cleanup() has not run for
\* it; the entry names that exchange, and the registry holds nothing else.
\* The callback's firing is recorded in the step in which it fires, so the
\* entry is gone in the state that step leads to, whether or not the load
\* signal has come.
C19_RegistryIff ==
    /\ \A e \in Exchanges :
          /\ exch[e].callback \in DOMAIN callbackMap
                <=> (~exch[e].invoked /\ ~Cleaned(e))
          /\ exch[e].callback \in DOMAIN callbackMap
                => callbackMap[exch[e].callback] = e
    /\ DOMAIN callbackMap \subseteq {exch[e].callback : e \in Exchanges}

\* The callback of e has fired and nothing else has happened to e: no load
\* signal, no cleanup; its entry is gone while that of f is there.
C19_Witness ==
    \E e, f \in Exchanges :
        /\ exch[e].invoked /\ exch[e].signal = "none" /\ ~exch[e].closed
        /\ exch[e].node.parentNode = "body"
        /\ exch[e].callback \notin DOMAIN callbackMap
        /\ exch[f].callback \in DOMAIN callbackMap

\* ------------------------------------------------------------ C20
\* C20: finished never goes back to false; body changes only in the step
\* that takes finished from false to true, and that step is the callback's
\* invocation; an exchange whose flag is set has no registry entry, so no
\* later step invokes its callback or changes what it received.
C20_FinishedOnce ==
    [][\A e \in Exchanges :
          /\ exch[e].finished => exch'[e].finished
          /\ exch'[e].body # exch[e].body
                => (~exch[e].finished /\ exch'[e].finished)
          /\ (~exch[e].finished /\ exch'[e].finished)
                => (~exch[e].invoked /\ exch'[e].invoked
                    /\ exch'[e].body = exch'[e].received)
          /\ exch[e].finished =>
                /\ exch[e].callback \notin DOMAIN callbackMap
                /\ exch'[e].invoked = exch[e].invoked
                /\ exch'[e].received = exch[e].received]_vars

\* The body was recorded once and kept through the load signal, the
\* deferred check and the teardown.
C20_Witness ==
    \E e \in Exchanges :
        /\ exch[e].finished /\ exch[e].body = "P1"
        /\ exch[e].signal = "load" /\ exch[e].terminal /\ exch[e].closed

\* ------------------------------------------------------------ C21
\* The step in which the consumer unsubscribes from exchange e.
Unsubscribed(e) == ~exch[e].cancelled /\ exch'[e].cancelled

\* C21: an unsubscribe that comes while the deferred check is queued leaves
\* it queued; when the deferred check of a cancelled subscription runs, it
\* adds no event, and in the state it leads to the callback is not
\* registered and the script has no parent.
C21_CancelBeforeCheck ==
    [][\A e \in Exchanges :
          /\ (Unsubscribed(e) /\ Pending(e)) =>
                /\ microtasks' = microtasks
                /\ exch'[e].events = exch[e].events
          /\ (DeferredRan(e) /\ exch[e].cancelled) =>
                /\ exch'[e].events = exch[e].events
                /\ Indices(exch'[e].events, {"Response", "error", "complete"}) = {}
                /\ exch'[e].callback \notin DOMAIN callbackMap'
                /\ exch'[e].node.parentNode = "none"]_vars

\* e is cancelled with its check still queued; the check of f, cancelled
\* too, has run, once after the callback had fired: f has its "Sent" and
\* nothing else.
C21_Witness ==
    \E e, f \in Exchanges :
        /\ exch[e].cancelled /\ exch[e].signal = "load" /\ Pending(e)
        /\ exch[f].cancelled /\ exch[f].signal = "load" /\ ~Pending(f)
        /\ exch[f].invoked
        /\ exch[f].events = <<SentEvent>>
        /\ exch[f].node.parentNode = "none"

\* ------------------------------------------------------------ C22
\* The deferred check of e has run and reported that no callback was
\* invoked.
NoCallbackReported(e) ==
    \E i \in 1..Len(exch[e].events) : exch[e].events[i] = NoCallbackError(exch[e])

\* C22: once the deferred check has reported the no-callback error the
\* callback is not registered, so the script's call of that name reaches
\* no handler: no step invokes the callback, and nothing of the exchange
\* changes again (no event, finished stays false, body stays null, no
\* registry entry).
C22_LateCallback ==
    [][\A e \in Exchanges :
          NoCallbackReported(e) =>
              /\ exch[e].callback \notin DOMAIN callbackMap
              /\ \A d \in Payloads : ~ENABLED InvokeCallback(exch[e].callback, d)
              /\ exch'[e] = exch[e]
              /\ ~exch'[e].finished /\ exch'[e].body = "null"
              /\ exch'[e].callback \notin DOMAIN callbackMap']_vars

\* e has reported the no-callback error while f is in flight with its
\* callback registered and then receives its payload.
C22_Witness ==
    \E e, f \in Exchanges :
        /\ e < f
        /\ NoCallbackReported(e)
        /\ exch[e].events = <<SentEvent, NoCallbackError(exch[e])>>
        /\ exch[f].invoked /\ exch[f].signal = "none" /\ ~exch[f].closed

\* ------------------------------------------------------------ C23
\* C23: the unsubscribe step moves the script into the foreign document
\* exactly when finished is false, and in both cases leaves the script
\* without parent and the callback unregistered; a script is in the foreign
\* document only if its subscription ended with finished false, and a
\* cancelled subscription's script is never attached and its callback never
\* registered.
C23_AdoptIffNotFinished ==
    [][/\ \A e \in Exchanges :
            Unsubscribed(e) =>
                /\ exch[e].node.ownerDocument = "document"
                /\ exch'[e].node.ownerDocument = "foreign" <=> ~exch[e].finished
                /\ ~exch[e].finished => foreignDocument'
                /\ exch[e].finished => foreignDocument' = foreignDocument
                /\ exch'[e].node.parentNode = "none"
                /\ exch'[e].callback \notin DOMAIN callbackMap'
       /\ \A e \in DOMAIN exch' :
            /\ exch'[e].cancelled =>
                  /\ exch'[e].node.parentNode = "none"
                  /\ exch'[e].callback \notin DOMAIN callbackMap'
                  /\ exch'[e].node.ownerDocument = "foreign" <=> ~exch'[e].finished
            /\ exch'[e].node.ownerDocument = "foreign" =>
                  (exch'[e].closed /\ ~exch'[e].finished /\ foreignDocument')]_vars

\* Both cases: e was cancelled before its callback fired, f after.
C23_Witness ==
    \E e, f \in Exchanges :
        /\ exch[e].cancelled /\ ~exch[e].finished
        /\ exch[e].node.ownerDocument = "foreign"
        /\ exch[f].cancelled /\ exch[f].finished
        /\ exch[f].node.ownerDocument = "document"
        /\ exch[f].node.parentNode = "none"

\* ------------------------------------------------------------ C24
\* C24: the error signal's own step detaches the script, unregisters the
\* callback and, for a live subscription, delivers the error; the load
\* signal's step does none of this and only queues the check; the step of
\* the deferred check does the cleanup and, for a live subscription,
\* delivers the terminal event; whenever a terminal event reaches the
\* consumer the cleanup has been done.
C24_Timing ==
    [][\A e \in Exchanges :
          /\ ErrorSignalled(e) =>
                /\ exch'[e].node.parentNode = "none"
                /\ exch'[e].callback \notin DOMAIN callbackMap'
                /\ ~exch[e].isStopped =>
                      /\ exch'[e].terminal
                      /\ Len(exch'[e].events) = Len(exch[e].events) + 1
                /\ microtasks' = microtasks
          /\ LoadSignalled(e) =>
                /\ exch'[e].node = exch[e].node
                /\ callbackMap' = callbackMap
                /\ exch'[e].events = exch[e].events
                /\ exch'[e].terminal = exch[e].terminal
                /\ microtasks' = Append(microtasks, e)
          /\ DeferredRan(e) =>
                /\ exch'[e].node.parentNode = "none"
                /\ exch'[e].callback \notin DOMAIN callbackMap'
                /\ ~exch[e].isStopped =>
                      /\ exch'[e].terminal
                      /\ Len(exch'[e].events) > Len(exch[e].events)
          /\ exch'[e].deliveredClean]_vars

\* Both outcomes side by side: e is between its load signal and its check,
\* untouched; f had a load error and is done.
C24_Witness ==
    \E e, f \in Exchanges :
        /\ exch[e].signal = "load" /\ Pending(e) /\ ~exch[e].terminal
        /\ exch[e].node.parentNode = "body"
        /\ exch[f].signal = "error" /\ exch[f].terminal
        /\ exch[f].node.parentNode = "none"

\* ------------------------------------------------------------ C25
\* C25: the script is attached to the document body exactly while
\* cleanup() has not run for its exchange; it is attached when the
\* subscription starts, never attached again once detached, and an
\* exchange that has had its terminal event or was cancelled has a script
\* without parent; after a terminal event the script signals nothing more.
C25_Attached ==
    [][/\ \A e \in DOMAIN exch' :
            /\ e \notin DOMAIN exch => exch'[e].node.parentNode = "body"
            /\ exch'[e].node.parentNode = "body"
                  <=> ~(exch'[e].closed
                        \/ (exch'[e].signal # "none"
                            /\ \A i \in 1..Len(microtasks') : microtasks'[i] # e))
            /\ (exch'[e].terminal \/ exch'[e].cancelled)
                  => exch'[e].node.parentNode = "none"
       /\ \A e \in Exchanges :
            /\ exch[e].node.parentNode = "none"
                  => exch'[e].node.parentNode = "none"
            /\ exch[e].terminal => exch'[e].signal = exch[e].signal]_vars

\* e is still attached after its callback fired and its load signal came;
\* f was cancelled after its callback fired and is detached.
C25_Witness ==
    \E e, f \in Exchanges :
        /\ exch[e].invoked /\ exch[e].signal = "load" /\ Pending(e)
        /\ exch[e].node.parentNode = "body"
        /\ exch[f].cancelled /\ exch[f].finished /\ exch[f].signal = "none"
        /\ exch[f].node.parentNode = "none"

\* ------------------------------------------------------------ C26
\* C26: for a request whose URL the placeholder pattern does not match,
\* handle() returns the observable; the subscription takes the next
\* callback name and registers it, loads a script whose src is the
\* original URL and emits "Sent"; the deferred check and the load error
\* then end it as they end any exchange, the events carrying the original
\* URL.
C26_NoPlaceholder ==
    [][/\ \A req \in PlainRequests :
            HandleCalled(req) =>
                (lastHandle'.result = "Observable" /\ NoSideEffect)
       /\ Subscribed =>
            LET x == exch'[Len(exch')]
            IN  /\ x.req \in PlainRequests
                /\ x.url = x.req.urlWithParams
                /\ x.node = [src |-> x.req.urlWithParams, parentNode |-> "body",
                             ownerDocument |-> "document"]
                /\ x.callback = nextCallback(nextRequestId)
                /\ nextRequestId' = nextRequestId + 1
                /\ x.callback \in DOMAIN callbackMap'
                /\ x.events = <<SentEvent>>
       /\ \A e \in Exchanges :
            /\ (DeferredRan(e) /\ ~exch[e].isStopped) =>
                  exch'[e].events = exch[e].events \o
                      (IF exch[e].invoked
                       THEN << ResponseEvent(exch[e].received,
                                             exch[e].req.urlWithParams),
                               CompleteEvent >>
                       ELSE << ErrorResponse(JSONP_ERR_NO_CALLBACK,
                                             exch[e].req.urlWithParams) >>)
            /\ (ErrorSignalled(e) /\ ~exch[e].isStopped) =>
                  \E cause \in Causes :
                      exch'[e].events = Append(exch[e].events,
                          ErrorResponse(cause, exch[e].req.urlWithParams))]_vars

\* Two exchanges on URLs without placeholder, one ended in success, the
\* other with a load error, both events naming the URL as it was given.
C26_Witness ==
    \E e, f \in Exchanges :
        /\ FirstMatch(exch[e].req.urlWithParams) = 0
        /\ FirstMatch(exch[f].req.urlWithParams) = 0
        /\ exch[e].req # exch[f].req
        /\ Len(exch[e].events) = 3
        /\ exch[e].events[2] = ResponseEvent("P1", exch[e].req.urlWithParams)
        /\ Len(exch[f].events) = 2
        /\ exch[f].events[2] = ErrorResponse("ErrorEvent", exch[f].req.urlWithParams)

\* ------------------------------------------------------------ C27
\* How many of the three preconditions a request violates.
Violations(req) ==
    (IF req.method # "JSONP" THEN 1 ELSE 0)
    + (IF req.responseType # "json" THEN 1 ELSE 0)
    + (IF req.headers # {} THEN 1 ELSE 0)

\* C27: a handle() call has one result; with a wrong method it is the
\* wrong-method error whatever else is wrong, with the right method and a
\* wrong response type it is the wrong-response-type error with or without
\* headers, with only headers wrong it is the headers error, and with
\* nothing wrong it is the observable.
C27_ErrorOrder ==
    [][\A req \in Requests :
          HandleCalled(req) =>
              /\ lastHandle'.result =
                    (IF req.method # "JSONP" THEN JSONP_ERR_WRONG_METHOD
                     ELSE IF req.responseType # "json"
                          THEN JSONP_ERR_WRONG_RESPONSE_TYPE
                     ELSE IF req.headers # {}
                          THEN JSONP_ERR_HEADERS_NOT_SUPPORTED
                     ELSE "Observable")
              /\ Violations(req) > 0 <=> lastHandle'.result # "Observable"
              /\ Violations(req) > 0 => NoSideEffect]_vars

\* A request with the right method, a wrong response type and headers got
\* the wrong-response-type error.
C27_Witness ==
    /\ lastHandle.called
    /\ Violations(lastHandle.req) = 2
    /\ lastHandle.req.method = "JSONP"
    /\ lastHandle.req.headers # {}
    /\ lastHandle.result = JSONP_ERR_WRONG_RESPONSE_TYPE

\* ------------------------------------------------------------ C28
\* The condition under which the interceptor is to add the header.
XsrfApplies(req, token) ==
    /\ injected.XSRF_ENABLED
    /\ req.method \notin {"GET", "HEAD"}
    /\ ~StartsWith(ToLowerCase(req.url), <<"h", "t", "t", "p", ":", "/", "/">>)
    /\ ~StartsWith(ToLowerCase(req.url), <<"h", "t", "t", "p", "s", ":", "/", "/">>)
    /\ token # "null"
    /\ injected.XSRF_HEADER_NAME \notin DOMAIN req.headers

\* C28: every call passes exactly one request to next; that request is the
\* input unless XSRF is enabled, the method is neither GET nor HEAD, the
\* lower-cased URL starts with neither "http://" nor "https://", the token
\* is not null and the request has no header of the configured name, and
\* then it is the input with that header added, valued with the token, and
\* nothing else changed; a header the request has keeps its value.
C28_XsrfHeader ==
    intercepted.called =>
        LET req == intercepted.req
            out == intercepted.out
            name == injected.XSRF_HEADER_NAME
        IN  /\ Len(out.next) = 1
            /\ out.next[1] # req <=>
                  (out.token # "notRead" /\ XsrfApplies(req, out.token))
            /\ out.next[1] # req =>
                  /\ out.next[1].method = req.method
                  /\ out.next[1].url = req.url
                  /\ DOMAIN out.next[1].headers = DOMAIN req.headers \cup {name}
                  /\ out.next[1].headers[name] = out.token
                  /\ \A n \in DOMAIN req.headers :
                        out.next[1].headers[n] = req.headers[n]
            /\ \A n \in DOMAIN req.headers :
                  /\ n \in DOMAIN out.next[1].headers
                  /\ out.next[1].headers[n] = req.headers[n]

\* A POST to a relative URL that only contains "http://" got the header
\* next to the one it had.
C28_Witness ==
    /\ intercepted.called
    /\ intercepted.req.method = "POST"
    /\ intercepted.req.url = <<"a", "h", "t", "t", "p", ":", "/", "/">>
    /\ DOMAIN intercepted.req.headers = {"Accept"}
    /\ DOMAIN intercepted.out.next[1].headers = {"Accept", XSRF_DEFAULT_HEADER_NAME}
    /\ intercepted.out.next[1].headers[XSRF_DEFAULT_HEADER_NAME] = "T1"

Holds(ref, tpl) ==
    /\ ref # 0
    /\ Len(viewContainer) = 1
    /\ viewContainer[1] = [id |-> ref, template |-> tpl]

\* C30: the then-view and the else-view never both exist; the container
\* holds the then-view, made from the current then-template, exactly when
\* the condition is truthy and a then-template is set, the else-view, made
\* from the current else-template, exactly when the condition is falsy and
\* an else-template is set, and nothing otherwise; an assignment to ngIf
\* that keeps the condition's truthiness leaves the container's views the
\* very views they were and creates none.
C30_NgIfViews ==
    /\ [](LET truthy == Truthy(ngIf.context.implicit)
          IN  /\ ~(ngIf.thenViewRef # 0 /\ ngIf.elseViewRef # 0)
              /\ Holds(ngIf.thenViewRef, ngIf.thenTemplateRef)
                    <=> (truthy /\ ngIf.thenTemplateRef # "null")
              /\ Holds(ngIf.elseViewRef, ngIf.elseTemplateRef)
                    <=> (~truthy /\ ngIf.elseTemplateRef # "null")
              /\ (~Holds(ngIf.thenViewRef, ngIf.thenTemplateRef)
                  /\ ~Holds(ngIf.elseViewRef, ngIf.elseTemplateRef))
                    => viewContainer = << >>)
    /\ [][(/\ ngIf'.context # ngIf.context
           /\ Truthy(ngIf'.context.implicit) = Truthy(ngIf.context.implicit))
              => /\ viewContainer' = viewContainer
                 /\ nextViewId' = nextViewId
                 /\ ngIf'.thenViewRef = ngIf.thenViewRef
                 /\ ngIf'.elseViewRef = ngIf.elseViewRef]_vars

\* The else-view of template B is shown under a falsy condition that is
\* not the initial one, after a then-view had been made and the
\* then-template changed.
C30_Witness ==
    /\ ngIf.context.implicit = "0"
    /\ ngIf.thenTemplateRef = "B" /\ ngIf.elseTemplateRef = "B"
    /\ Holds(ngIf.elseViewRef, "B")
    /\ ngIf.elseViewRef >= 3
    /\ ngIf.thenViewRef = 0

====
